---------------------------- MODULE Spec2Model ----------------------------
(***************************************************************************)
(* Model of crates/rattler_build_script/src/interpreter/powershell.rs:     *)
(* detect_powershell and PowerShellInterpreter::run.                       *)
(*                                                                         *)
(* Text is a sequence of strings.  The output of `pwsh -v` and the working *)
(* directory are sequences of one-character strings, because the code      *)
(* inspects their characters (trim, split, parse, Debug escaping).  Fixed  *)
(* texts that are only ever concatenated (the preamble, the postamble,     *)
(* the script body, an activation script, the file name) are one element.  *)
(***************************************************************************)
EXTENDS Integers, Sequences, FiniteSets, TLC

VARIABLES
    windows,      \* cfg!(windows): the platform the crate was compiled for
    args,         \* args[i]: the ExecutionArgs invocation i of run was called with
    host,         \* host[i]: the host's pwsh installation as invocation i's probe finds it
    activator,    \* activator[p]: what rattler_shell's Activator does for prefix p
    fs,           \* fs[path]: the file at path (exists, data)
    pc,           \* pc[i]: where invocation i of run is
    probe,        \* probe[i]: (shell_cmd, new_enough) as returned by detect_powershell
    warnings,     \* warnings[i]: number of tracing::warn! events invocation i emitted
    contents,     \* contents[i]: the local `contents` of invocation i
    write_io,     \* write_io[i]: how invocation i's tokio::fs::write ended ("none" before)
    last_write,   \* last_write[path]: the invocation whose write last completed on path (0: none)
    leaf,         \* leaf[i]: the leaf interpreter invocation i called ("none" before)
    leaf_args,    \* leaf_args[i]: the ExecutionArgs handed to the leaf
    leaf_calls,   \* leaf_calls[i]: number of calls of a leaf's run by invocation i
    leaf_result,  \* leaf_result[i]: what the leaf's run returned
    executed,     \* executed[i]: the script text the interpreter spawned by the leaf read
    result        \* result[i]: what run returned to its caller

vars == <<windows, args, host, activator, fs, pc, probe, warnings, contents, write_io,
          last_write, leaf, leaf_args, leaf_calls, leaf_result, executed, result>>

---------------------------------------------------------------------------
(* Bounds *)

\* Number of invocations of run that may be in flight together.
NumProcs == 2

\* Longest output of `pwsh -v`, counted in pieces of OutPieces.
MaxPieces == 5

Procs == 1 .. NumProcs

---------------------------------------------------------------------------
(* Option<T> *)

None == [some |-> FALSE]

Some(v) == [some |-> TRUE, val |-> v]

---------------------------------------------------------------------------
(* str::trim, str::split, str::parse::<i32> *)

\* i32::MAX
I32Max == 2147483647

I32Min == (-I32Max) - 1

\* char::is_whitespace, for the characters the model draws from
IsWhitespace(c) == c \in {" ", "\t", "\n", "\r"}

RECURSIVE TrimStart(_)
TrimStart(s) ==
    IF s # <<>> /\ IsWhitespace(Head(s)) THEN TrimStart(Tail(s)) ELSE s

RECURSIVE TrimEnd(_)
TrimEnd(s) ==
    IF s # <<>> /\ IsWhitespace(s[Len(s)]) THEN TrimEnd(SubSeq(s, 1, Len(s) - 1)) ELSE s

\* str::trim
Trim(s) == TrimEnd(TrimStart(s))

\* str::split(c).collect(): the pieces between the occurrences of c; one
\* (possibly empty) piece when c does not occur.
RECURSIVE Split(_, _)
Split(s, c) ==
    IF \A k \in 1 .. Len(s) : s[k] # c
    THEN <<s>>
    ELSE LET k == CHOOSE k \in 1 .. Len(s) :
                      s[k] = c /\ \A m \in 1 .. (k - 1) : s[m] # c
         IN  <<SubSeq(s, 1, k - 1)>> \o Split(SubSeq(s, k + 1, Len(s)), c)

DigitChars == <<"0", "1", "2", "3", "4", "5", "6", "7", "8", "9">>

IsDigit(c) == \E k \in 1 .. 10 : DigitChars[k] = c

DigitVal(c) == (CHOOSE k \in 1 .. 10 : DigitChars[k] = c) - 1

\* The digit loop of i32::from_str: checked_mul(10) then checked_add (or
\* checked_sub for a negative number) of each digit; an invalid digit or an
\* overflow is an error.
RECURSIVE ParseDigits(_, _, _)
ParseDigits(s, acc, neg) ==
    IF s = <<>> THEN Some(acc)
    ELSE IF ~IsDigit(Head(s)) THEN None
    ELSE LET d == DigitVal(Head(s)) IN
         IF neg
         THEN IF acc < -(I32Max \div 10) THEN None
              ELSE IF acc * 10 < I32Min + d THEN None
              ELSE ParseDigits(Tail(s), acc * 10 - d, neg)
         ELSE IF acc > I32Max \div 10 THEN None
              ELSE IF acc * 10 > I32Max - d THEN None
              ELSE ParseDigits(Tail(s), acc * 10 + d, neg)

\* str::parse::<i32>().ok()
ParseI32(s) ==
    IF s = <<>> THEN None
    ELSE IF Head(s) \in {"+", "-"}
         THEN IF Tail(s) = <<>> THEN None
              ELSE ParseDigits(Tail(s), 0, Head(s) = "-")
         ELSE ParseDigits(s, 0, FALSE)

---------------------------------------------------------------------------
(* detect_powershell *)

NewEnoughOff(major, minor) == major > 7 \/ (major = 7 /\ minor > 4)

\* major > 7 || (major == 7 && minor >= 4)
NewEnough(major, minor) == major > 7 \/ (major = 7 /\ minor >= 4)

\* out.trim().split(' ').next_back()?.split('.').collect()
VersionComponents(out) ==
    LET tokens == Split(Trim(out), " ")
    IN  Split(tokens[Len(tokens)], ".")

\* The closure handed to and_then, after which::which("pwsh").ok().
VersionCheck(h) ==
    IF ~h.found THEN None
    ELSE IF ~h.spawn_ok THEN None
    ELSE IF ~h.utf8 THEN None
    ELSE LET ver == VersionComponents(h.out) IN
         IF Len(ver) < 2 THEN None
         ELSE LET major == ParseI32(ver[1]) IN
              IF ~major.some THEN None
              ELSE LET minor == ParseI32(ver[2]) IN
                   IF ~minor.some THEN None
                   ELSE Some(NewEnough(major.val, minor.val))

MatchResultKeepsPwsh(r) == IF r.some THEN <<"pwsh", r.val>> ELSE <<"pwsh", FALSE>>

\* match result { Some(new_enough) => ("pwsh", new_enough), None => ("powershell", false) }
MatchResult(r) == IF r.some THEN <<"pwsh", r.val>> ELSE <<"powershell", FALSE>>

detect_powershell(h) == MatchResult(VersionCheck(h))

WarnCountInverted(new_enough) == IF new_enough THEN 1 ELSE 0

\* if !new_enough { tracing::warn!(...) }
WarnCount(new_enough) == IF ~new_enough THEN 1 ELSE 0

---------------------------------------------------------------------------
(* Script assembly *)

POWERSHELL_PREAMBLE == <<"POWERSHELL_PREAMBLE">>

POWERSHELL_POSTAMBLE == <<"POWERSHELL_POSTAMBLE">>

NoPrefix == "None"

\* The activation script rattler_shell produces for prefix p.
ActivationScript(p) == <<"activate", p>>

UnwrapOrDefault(outcome, p) ==
    [panic |-> FALSE, script |-> IF outcome = "ok" THEN ActivationScript(p) ELSE <<>>]

\* Activator::from_path(..).unwrap() followed by .activation(..).unwrap():
\* either unwrap panics on Err.
Unwrap(outcome, p) ==
    [panic |-> outcome # "ok", script |-> IF outcome = "ok" THEN ActivationScript(p) ELSE <<>>]

AppendBuildFirst(host_script, build_script) == build_script \o host_script

\* shell_script.append_script(&host_activation.script);
\* shell_script.append_script(&build_activation.script);
AppendBoth(host_script, build_script) == host_script \o build_script

\* The activation part of run: the panic flag and shell_script.contents().
Activation(a, act) ==
    LET h == Unwrap(act[a.run_prefix], a.run_prefix) IN
    IF h.panic THEN [panic |-> TRUE, script |-> <<>>]
    ELSE IF a.build_prefix # NoPrefix
         THEN LET b == Unwrap(act[a.build_prefix], a.build_prefix) IN
              IF b.panic THEN [panic |-> TRUE, script |-> <<>>]
              ELSE [panic |-> FALSE, script |-> AppendBoth(h.script, b.script)]
         ELSE [panic |-> FALSE, script |-> h.script]

\* shell_script.contents().unwrap() + POWERSHELL_PREAMBLE + args.script.script()
\*     + POWERSHELL_POSTAMBLE
Contents(script_contents, body) ==
    script_contents \o POWERSHELL_PREAMBLE \o body \o POWERSHELL_POSTAMBLE

---------------------------------------------------------------------------
(* Paths and the inline command *)

ScriptName == <<"conda_build_script.ps1">>

IsSeparator(c, win) == c = "/" \/ (win /\ c = "\\")

MainSeparator(win) == IF win THEN "\\" ELSE "/"

JoinTempDir(work_dir, win) == <<"/", "t", "/">> \o ScriptName

\* args.work_dir.join("conda_build_script.ps1")
Join(work_dir, win) ==
    IF work_dir = <<>> THEN ScriptName
    ELSE IF IsSeparator(work_dir[Len(work_dir)], win) THEN work_dir \o ScriptName
    ELSE work_dir \o <<MainSeparator(win)>> \o ScriptName

\* char::escape_debug, for the characters the model draws from
EscapeDebug(c) ==
    CASE c = "\"" -> <<"\\", "\"">>
      [] c = "\\" -> <<"\\", "\\">>
      [] c = "\t" -> <<"\\", "t">>
      [] c = "\n" -> <<"\\", "n">>
      [] c = "\r" -> <<"\\", "r">>
      [] OTHER -> <<c>>

RECURSIVE EscapeAll(_)
EscapeAll(s) == IF s = <<>> THEN <<>> ELSE EscapeDebug(Head(s)) \o EscapeAll(Tail(s))

\* {:?} of a path: the text between double quotes, escaped
DebugFmt(path) == <<"\"">> \o EscapeAll(path) \o <<"\"">>

InlineCommandDisplay(shell_cmd, ps1_script) ==
    <<shell_cmd, " -NoLogo -NoProfile ">> \o ps1_script

\* format!("{} -NoLogo -NoProfile {:?}", shell_cmd, ps1_script)
InlineCommand(shell_cmd, ps1_script) ==
    <<shell_cmd, " -NoLogo -NoProfile ">> \o DebugFmt(ps1_script)

LeafForExecutionPlatform(win, a) ==
    IF a.execution_platform = "win-64" THEN "CmdExeInterpreter" ELSE "BashInterpreter"

\* if cfg!(windows) { CmdExeInterpreter.run(args) } else { BashInterpreter.run(args) }
LeafFor(win, a) == IF win THEN "CmdExeInterpreter" ELSE "BashInterpreter"

IgnoresIoError(io) == FALSE

\* tokio::fs::write(..).await?: an Err returns from run
Propagates(io) == io # "ok"

SwallowsLeafError(r) == [ok |-> TRUE]

\* the leaf's Result is the value of run
RunResult(r) == r

\* InterpreterError's From<std::io::Error>, which `?` applies: the execution
\* failure wrapping the I/O error.
InterpreterErrorFrom(io) ==
    [ok |-> FALSE, err |-> "InterpreterError from io::Error", cause |-> io]

---------------------------------------------------------------------------
(* The inputs and the environment *)

\* Pieces the output of `pwsh -v` is drawn from; the last is i32::MAX / 10,
\* so that a following digit decides whether the number still fits an i32.
OutPieces ==
    { <<" ">>, <<"\t">>, <<".">>, <<"3">>, <<"4">>, <<"7">>,
      <<"2", "1", "4", "7", "4", "8", "3", "6", "4">> }

RECURSIVE Flatten(_)
Flatten(q) == IF q = <<>> THEN <<>> ELSE Head(q) \o Flatten(Tail(q))

Outputs == { Flatten(q) : q \in UNION { [1 .. n -> OutPieces] : n \in 0 .. MaxPieces } }

HostOk(out) == [found |-> TRUE, spawn_ok |-> TRUE, utf8 |-> TRUE, out |-> out]

\* which::which("pwsh") fails
NotFound == [found |-> FALSE, spawn_ok |-> FALSE, utf8 |-> FALSE, out |-> <<>>]

\* Command::new("pwsh").arg("-v").output() fails
SpawnFails == [found |-> TRUE, spawn_ok |-> FALSE, utf8 |-> FALSE, out |-> <<>>]

\* String::from_utf8 fails
NotUtf8 == [found |-> TRUE, spawn_ok |-> TRUE, utf8 |-> FALSE, out |-> <<>>]

\* pwsh absent, and the output of `pwsh -v` of a 7.4.2 and of a 7.3.9
\* ("P" stands for a letter of the word before the version).
SmallHosts ==
    { NotFound,
      HostOk(<<"P", " ", "7", ".", "4", ".", "2", "\n">>),
      HostOk(<<"P", " ", "7", ".", "3", ".", "9", "\n">>) }

\* An output longer than MaxPieces: a version, a tab, a bare number.
TabbedHosts == { HostOk(<<"7", ".", "4", ".", "3", "\t", "7">>) }

ProbeHosts ==
    {NotFound, SpawnFails, NotUtf8} \cup SmallHosts \cup TabbedHosts
        \cup { HostOk(o) : o \in Outputs }

Prefixes == {"/opt/env", "/opt/bld"}

ActivationOutcomes == {"ok", "from_path_err", "activation_err"}

TmpB == <<"/", "t", "/", "b">>

WorkDirs ==
    { TmpB,
      TmpB \o <<"/">>,
      <<"C", ":", "\\", "w">>,
      <<"/", "a", " ", "\"">>,
      <<"w">> }

ConcDirs == { TmpB, TmpB \o <<"/">>, <<"/", "t", "/", "c">> }

AllDirs == WorkDirs \cup ConcDirs \cup { <<"/", "t">> }

Paths == { Join(d, w) : d \in AllDirs, w \in BOOLEAN }

Bodies == { <<"Write-Host hi">>, <<"exit 1">> }

Platforms == {"win-64", "linux-64"}

ExecutionArgs ==
    [work_dir : WorkDirs, script : Bodies, run_prefix : Prefixes,
     build_prefix : Prefixes \cup {NoPrefix}, execution_platform : Platforms]

ConcArgs ==
    [work_dir : ConcDirs, script : Bodies, run_prefix : {"/opt/env"},
     build_prefix : {NoPrefix}, execution_platform : {"linux-64"}]

DefaultArgs ==
    [work_dir |-> TmpB, script |-> <<"Write-Host hi">>, run_prefix |-> "/opt/env",
     build_prefix |-> NoPrefix, execution_platform |-> "win-64"]

NoFile == [exists |-> FALSE, data |-> <<>>]

OldFile == [exists |-> TRUE, data |-> <<"old contents">>]

IoOutcomes == {"ok", "PermissionDenied", "StorageFull"}

LeafResults == { [ok |-> TRUE], [ok |-> FALSE, err |-> "leaf: script failed"] }

NoResult == [ok |-> FALSE, err |-> "pending"]

---------------------------------------------------------------------------
(* The state machine *)

\* The state when the invocations in `active` have been called with arguments
\* of ArgSet, on hosts of HostSet, activators of ActSet and builds of WinSet.
InitWith(active, ArgSet, HostSet, ActSet, WinSet) ==
    /\ windows \in WinSet
    /\ \E a \in [active -> ArgSet] :
           args = [i \in Procs |-> IF i \in active THEN a[i] ELSE DefaultArgs]
    /\ \E h \in [active -> HostSet] :
           host = [i \in Procs |-> IF i \in active THEN h[i] ELSE NotFound]
    /\ activator \in ActSet
    /\ \E pre \in BOOLEAN : fs = [p \in Paths |-> IF pre THEN OldFile ELSE NoFile]
    /\ pc = [i \in Procs |-> IF i \in active THEN "start" ELSE "idle"]
    /\ probe = [i \in Procs |-> <<"", FALSE>>]
    /\ warnings = [i \in Procs |-> 0]
    /\ contents = [i \in Procs |-> <<>>]
    /\ write_io = [i \in Procs |-> "none"]
    /\ last_write = [p \in Paths |-> 0]
    /\ leaf = [i \in Procs |-> "none"]
    /\ leaf_args = [i \in Procs |-> DefaultArgs]
    /\ leaf_calls = [i \in Procs |-> 0]
    /\ leaf_result = [i \in Procs |-> NoResult]
    /\ executed = [i \in Procs |-> NoFile]
    /\ result = [i \in Procs |-> NoResult]

\* One call of run, any arguments, any host.
Init == InitWith({1}, ExecutionArgs, SmallHosts, [Prefixes -> ActivationOutcomes], BOOLEAN)

\* One call of run on every output of `pwsh -v` within the bounds.
InitProbe ==
    InitWith({1}, {DefaultArgs}, ProbeHosts, {[p \in Prefixes |-> "ok"]}, {FALSE})

\* Concurrent calls of run.
InitConc ==
    InitWith(Procs, ConcArgs, {HostOk(<<"P", " ", "7", ".", "4">>)},
             {[p \in Prefixes |-> "ok"]}, {FALSE})

ps1_script(i) == Join(args[i].work_dir, windows)

\* run, from its entry to the await of tokio::fs::write: the probe, the
\* warning, the activations and the assembly of the script.  Nothing in it
\* awaits, so it is one step.
Prepare(i) ==
    /\ pc[i] = "start"
    /\ LET pr == detect_powershell(host[i])
           act == Activation(args[i], activator)
       IN  /\ probe' = [probe EXCEPT ![i] = pr]
           /\ warnings' = [warnings EXCEPT ![i] = @ + WarnCount(pr[2])]
           /\ pc' = [pc EXCEPT ![i] = IF act.panic THEN "panicked" ELSE "writing"]
           /\ contents' = [contents EXCEPT
                  ![i] = IF act.panic THEN @ ELSE Contents(act.script, args[i].script)]
    /\ UNCHANGED <<windows, args, host, activator, fs, write_io, last_write, leaf,
                   leaf_args, leaf_calls, leaf_result, executed, result>>

\* tokio::fs::write completes.  On Ok the file holds contents and run goes on,
\* without awaiting, to build the new ExecutionArgs and call the leaf.  On Err
\* the file is as it was or truncated, and `?` returns the error.
Write(i) ==
    /\ pc[i] = "writing"
    /\ \E io \in IoOutcomes, truncated \in BOOLEAN :
         LET path == ps1_script(i) IN
         /\ io = "ok" => ~truncated
         /\ fs' = [fs EXCEPT ![path] =
                      IF io = "ok" THEN [exists |-> TRUE, data |-> contents[i]]
                      ELSE IF truncated THEN [exists |-> TRUE, data |-> <<>>]
                      ELSE @]
         /\ last_write' = [last_write EXCEPT ![path] =
                      IF io = "ok" THEN i ELSE IF truncated THEN 0 ELSE @]
         /\ write_io' = [write_io EXCEPT ![i] = io]
         /\ IF Propagates(io)
            THEN /\ result' = [result EXCEPT ![i] = InterpreterErrorFrom(io)]
                 /\ pc' = [pc EXCEPT ![i] = "done"]
                 /\ UNCHANGED <<leaf, leaf_args, leaf_calls>>
            ELSE /\ leaf_args' = [leaf_args EXCEPT ![i] =
                         [args[i] EXCEPT !.script = InlineCommand(probe[i][1], path)]]
                 /\ leaf' = [leaf EXCEPT ![i] = LeafFor(windows, args[i])]
                 /\ leaf_calls' = [leaf_calls EXCEPT ![i] = @ + 1]
                 /\ pc' = [pc EXCEPT ![i] = "leaf"]
                 /\ UNCHANGED result
    /\ UNCHANGED <<windows, args, host, activator, probe, warnings, contents,
                   leaf_result, executed>>

\* The await of the leaf's run completes: the interpreter it spawned has read
\* the script file, and the leaf's Result is returned as run's.
LeafRun(i) ==
    /\ pc[i] = "leaf"
    /\ \E r \in LeafResults :
         /\ executed' = [executed EXCEPT ![i] = fs[ps1_script(i)]]
         /\ leaf_result' = [leaf_result EXCEPT ![i] = r]
         /\ result' = [result EXCEPT ![i] = RunResult(r)]
         /\ pc' = [pc EXCEPT ![i] = "done"]
    /\ UNCHANGED <<windows, args, host, activator, fs, probe, warnings, contents,
                   write_io, last_write, leaf, leaf_args, leaf_calls>>

Next == \E i \in Procs : Prepare(i) \/ Write(i) \/ LeafRun(i)

NextProbe == \E i \in Procs : Prepare(i)

Spec == Init /\ [][Next]_vars

SpecProbe == InitProbe /\ [][NextProbe]_vars

SpecConc == InitConc /\ [][Next]_vars

---------------------------------------------------------------------------
(* Vocabulary of the properties *)

\* Invocation i has run its probe.
Probed(i) == pc[i] \notin {"idle", "start"}

\* The modern binary was found and its version query produced text.
Answered(i) == host[i].found /\ host[i].spawn_ok /\ host[i].utf8

RECURSIVE SuffixWithout(_, _)
\* The longest suffix of s holding no character of the set stop.
SuffixWithout(s, stop) ==
    IF s = <<>> \/ s[Len(s)] \in stop THEN <<>>
    ELSE SuffixWithout(SubSeq(s, 1, Len(s) - 1), stop) \o <<s[Len(s)]>>

\* The last whitespace-separated token of s (empty when s has none).
LastWhitespaceToken(s) == SuffixWithout(TrimEnd(s), {" ", "\t", "\n", "\r"})

\* The last token of the trimmed s when only the space character separates.
LastSpaceToken(s) == SuffixWithout(Trim(s), {" "})

RECURSIVE UpTo(_, _)
\* s up to its first c (all of s when c does not occur).
UpTo(s, c) == IF s = <<>> \/ Head(s) = c THEN <<>> ELSE <<Head(s)>> \o UpTo(Tail(s), c)

\* s after its first c (empty when c does not occur).
After(s, c) == SubSeq(s, Len(UpTo(s, c)) + 2, Len(s))

HasDot(tok) == \E k \in 1 .. Len(tok) : tok[k] = "."

MajorOf(tok) == UpTo(tok, ".")

MinorOf(tok) == UpTo(After(tok, "."), ".")

IsDecimal(x) == x # <<>> /\ \A k \in 1 .. Len(x) : IsDigit(x[k])

\* A version X.Y[...] with decimal X and Y.
IsVersion(tok) == HasDot(tok) /\ IsDecimal(MajorOf(tok)) /\ IsDecimal(MinorOf(tok))

RECURSIVE StripZeros(_)
StripZeros(x) == IF x # <<>> /\ Head(x) = "0" THEN StripZeros(Tail(x)) ELSE x

\* Comparisons of a decimal numeral of any length with 7 and 4.
Above7(x) ==
    LET z == StripZeros(x) IN Len(z) >= 2 \/ (Len(z) = 1 /\ DigitVal(z[1]) > 7)

Is7(x) == StripZeros(x) = <<"7">>

AtLeast4(y) ==
    LET z == StripZeros(y) IN Len(z) >= 2 \/ (Len(z) = 1 /\ DigitVal(z[1]) >= 4)

\* X > 7 or (X = 7 and Y >= 4)
Capable(tok) == Above7(MajorOf(tok)) \/ (Is7(MajorOf(tok)) /\ AtLeast4(MinorOf(tok)))

I32MaxDigits == <<"2", "1", "4", "7", "4", "8", "3", "6", "4", "7">>

\* The decimal numeral x is at most i32::MAX.
FitsI32(x) ==
    LET z == StripZeros(x) IN
    \/ Len(z) < 10
    \/ /\ Len(z) = 10
       /\ \/ z = I32MaxDigits
          \/ \E k \in 1 .. 10 :
                /\ DigitVal(z[k]) < DigitVal(I32MaxDigits[k])
                /\ \A m \in 1 .. (k - 1) : z[m] = I32MaxDigits[m]

---------------------------------------------------------------------------
(* Properties of detect_powershell, checked under SpecProbe *)

\* C1 as stated: whenever pwsh answered and the last whitespace-separated
\* token of its output is a version X.Y[...] with integer X and Y, the probe
\* returns ("pwsh", X > 7 or (X = 7 and Y >= 4)).
C1_AsStated ==
    \A i \in Procs :
        (Probed(i) /\ Answered(i) /\ IsVersion(LastWhitespaceToken(host[i].out)))
        => probe[i] = <<"pwsh", Capable(LastWhitespaceToken(host[i].out))>>

\* C1 amended: whenever pwsh answered and the last token of its trimmed
\* output, tokens being separated by the space character only, is a version
\* X.Y[...] with decimal X and Y that each fit an i32, the probe returns
\* ("pwsh", X > 7 or (X = 7 and Y >= 4)).
C1_Amended ==
    \A i \in Procs :
        LET tok == LastSpaceToken(host[i].out) IN
        (Probed(i) /\ Answered(i) /\ IsVersion(tok)
            /\ FitsI32(MajorOf(tok)) /\ FitsI32(MinorOf(tok)))
        => probe[i] = <<"pwsh", Capable(tok)>>

\* A probe of an output "<token> 7.4": the version follows another token and
\* is exactly at the threshold.
C1_Witness ==
    \E i \in Procs :
        LET tok == LastSpaceToken(host[i].out) IN
        /\ Probed(i) /\ Answered(i)
        /\ tok = <<"7", ".", "4">>
        /\ Len(Trim(host[i].out)) > Len(tok)
        /\ probe[i] = <<"pwsh", TRUE>>

\* C2 as stated: the probe never fails, and when pwsh is not found, its spawn
\* fails, its output is not UTF-8, or the version token (the last
\* whitespace-separated token of the output) has fewer than two
\* dot-separated components, it returns ("powershell", FALSE) and run goes on
\* to assemble the script.
C2_AsStated ==
    \A i \in Procs :
        Probed(i) =>
            /\ probe[i][1] \in {"pwsh", "powershell"}
            /\ pc[i] = "writing"
            /\ (\/ ~host[i].found
                \/ ~host[i].spawn_ok
                \/ ~host[i].utf8
                \/ ~HasDot(LastWhitespaceToken(host[i].out)))
               => probe[i] = <<"powershell", FALSE>>

\* C2 amended: the probe never fails.  When pwsh is not found, its spawn
\* fails, its output is not UTF-8, or the last space-separated token of the
\* trimmed output has fewer than two dot-separated components, the probe
\* returns ("powershell", FALSE); in every case it returns one of the two
\* names and run goes on to assemble the script.
C2_FallbackToLegacy ==
    \A i \in Procs :
        Probed(i) =>
            /\ probe[i][1] \in {"pwsh", "powershell"}
            /\ probe[i][2] \in BOOLEAN
            /\ pc[i] = "writing"
            /\ contents[i] # <<>>
            /\ result[i] = NoResult
            /\ (\/ ~host[i].found
                \/ ~host[i].spawn_ok
                \/ ~host[i].utf8
                \/ ~HasDot(LastSpaceToken(host[i].out)))
               => probe[i] = <<"powershell", FALSE>>

\* A probe that found pwsh and got the bare major version "7".
C2_Witness ==
    \E i \in Procs :
        /\ Probed(i) /\ Answered(i)
        /\ Trim(host[i].out) = <<"7">>
        /\ probe[i] = <<"powershell", FALSE>>
        /\ pc[i] = "writing"

---------------------------------------------------------------------------
(* Properties of run, checked under Spec *)

Wrote(i) == write_io[i] = "ok"

Delegated(i) == leaf_calls[i] > 0

\* An activation invocation i asks for fails.
ActivationFails(i) ==
    \/ activator[args[i].run_prefix] # "ok"
    \/ args[i].build_prefix # NoPrefix /\ activator[args[i].build_prefix] # "ok"

\* A + B? + P + S + Q for the arguments of invocation i.
Assembled(i) ==
    LET A == ActivationScript(args[i].run_prefix)
        B == IF args[i].build_prefix = NoPrefix THEN <<>>
             ELSE ActivationScript(args[i].build_prefix)
    IN  A \o B \o POWERSHELL_PREAMBLE \o args[i].script \o POWERSHELL_POSTAMBLE

\* C3: what a run writes to <work_dir>/conda_build_script.ps1 is A + B? + P +
\* S + Q in that order, a function of the prefixes' activation scripts and the
\* script body alone; the probe's result does not enter it.
C3_ContentsInOrder ==
    \A i \in Procs :
        Wrote(i) =>
            /\ contents[i] = Assembled(i)
            /\ last_write[ps1_script(i)] = i
                 => fs[ps1_script(i)] = [exists |-> TRUE, data |-> Assembled(i)]

\* A run on a host without pwsh wrote a script with both activations, of
\* different prefixes.
C3_Witness ==
    \E i \in Procs :
        /\ Wrote(i)
        /\ args[i].build_prefix \notin {NoPrefix, args[i].run_prefix}
        /\ probe[i] = <<"powershell", FALSE>>
        /\ fs[ps1_script(i)].data = Assembled(i)

RECURSIVE UnescapeDebug(_)
\* The text whose escape_debug form is s: a backslash announces one escaped
\* character.
UnescapeDebug(s) ==
    IF s = <<>> THEN <<>>
    ELSE IF Head(s) = "\\" /\ Len(s) >= 2
         THEN <<CASE s[2] = "t" -> "\t" [] s[2] = "n" -> "\n" [] s[2] = "r" -> "\r"
                  [] OTHER -> s[2]>> \o UnescapeDebug(SubSeq(s, 3, Len(s)))
         ELSE <<Head(s)>> \o UnescapeDebug(Tail(s))

RECURSIVE NoBareQuote(_)
\* Every double quote of s is escaped by a backslash.
NoBareQuote(s) ==
    IF s = <<>> THEN TRUE
    ELSE IF Head(s) = "\\" THEN Len(s) >= 2 /\ NoBareQuote(SubSeq(s, 3, Len(s)))
    ELSE Head(s) # "\"" /\ NoBareQuote(Tail(s))

C5_LeafByBuildPlatform ==
    \A i \in Procs :
        /\ Delegated(i) =>
               leaf[i] = (IF windows THEN "CmdExeInterpreter" ELSE "BashInterpreter")
        /\ ~Delegated(i) => leaf[i] = "none"

\* A build for a non-Windows platform ran a script whose execution platform
\* is win-64 through bash, with the legacy binary.
C5_Witness ==
    \E i \in Procs :
        /\ Delegated(i)
        /\ ~windows
        /\ args[i].execution_platform = "win-64"
        /\ probe[i][1] = "powershell"
        /\ leaf[i] = "BashInterpreter"

\* C6: a run emits one warning when the probe's flag is FALSE and none when
\* it is TRUE, and the warning changes nothing else: the run stops before
\* the write only if an activation fails, and it delegates whenever its
\* write succeeded.
C6_OneWarningNonFatal ==
    \A i \in Procs :
        /\ ~Probed(i) => warnings[i] = 0
        /\ Probed(i) =>
               /\ warnings[i] = (IF probe[i][2] THEN 0 ELSE 1)
               /\ (pc[i] = "panicked") = ActivationFails(i)
               /\ Wrote(i) => Delegated(i)

\* A run that warned went on to write the script and returned the leaf's
\* success.
C6_Witness ==
    \E i \in Procs :
        /\ warnings[i] = 1
        /\ pc[i] = "done"
        /\ Wrote(i) /\ Delegated(i)
        /\ result[i] = [ok |-> TRUE]

\* C7: when the activation of the run prefix fails, or that of a present
\* build prefix, the run aborts: it returns nothing, never writes the script
\* file (the path holds what it held before the call) and calls no leaf.
C7_ActivationFailureAborts ==
    \A i \in Procs :
        (Probed(i) /\ ActivationFails(i)) =>
            /\ pc[i] = "panicked"
            /\ result[i] = NoResult
            /\ write_io[i] = "none"
            /\ \A j \in Procs \ {i} : pc[j] = "idle"
                 => fs[ps1_script(i)] \in {OldFile, NoFile}
            /\ leaf_calls[i] = 0 /\ leaf[i] = "none"

\* The run prefix activated, the build prefix did not, and the script file
\* of an earlier run is still in place.
C7_Witness ==
    \E i \in Procs :
        /\ pc[i] = "panicked"
        /\ activator[args[i].run_prefix] = "ok"
        /\ args[i].build_prefix # NoPrefix
        /\ activator[args[i].build_prefix] # "ok"
        /\ fs[ps1_script(i)] = OldFile

\* C8: a failed write of the script file makes run return a failure that
\* carries the I/O error, without calling a leaf; a leaf is called only by a
\* run whose write succeeded.
C8_WriteFailureReturned ==
    \A i \in Procs :
        /\ write_io[i] \notin {"none", "ok"} =>
               /\ pc[i] = "done"
               /\ ~result[i].ok
               /\ result[i].cause = write_io[i]
               /\ leaf_calls[i] = 0 /\ leaf[i] = "none"
        /\ Delegated(i) => Wrote(i)

\* A write failed for lack of space and run returned that error.
C8_Witness ==
    \E i \in Procs :
        /\ write_io[i] = "StorageFull"
        /\ pc[i] = "done"
        /\ result[i].cause = "StorageFull"
        /\ leaf_calls[i] = 0

\* C9: a run calls at most one leaf, once, only after preparing, and never
\* prepares again afterwards; having delegated, what it returns is what the
\* leaf returned.
C9_DelegatesOnce ==
    \A i \in Procs :
        /\ leaf_calls[i] <= 1
        /\ pc[i] \in {"idle", "start", "writing", "panicked"} => leaf_calls[i] = 0
        /\ Delegated(i) => pc[i] \in {"leaf", "done"}
        /\ pc[i] = "leaf" => leaf_result[i] = NoResult /\ result[i] = NoResult
        /\ (Delegated(i) /\ pc[i] = "done") =>
               leaf_result[i] \in LeafResults /\ result[i] = leaf_result[i]

\* The leaf failed and run returned that failure after one call.
C9_Witness ==
    \E i \in Procs :
        /\ pc[i] = "done"
        /\ leaf_calls[i] = 1
        /\ ~leaf_result[i].ok
        /\ result[i] = leaf_result[i]

---------------------------------------------------------------------------
(* Property of concurrent runs, checked under SpecConc *)

\* The directory a working directory path names: without a trailing separator.
Directory(d) ==
    IF d # <<>> /\ IsSeparator(d[Len(d)], windows) THEN SubSeq(d, 1, Len(d) - 1) ELSE d

\* Invocation i shares its working directory with no other invocation.
OwnDirectory(i) ==
    \A j \in Procs \ {i} :
        pc[j] = "idle" \/ Directory(args[j].work_dir) # Directory(args[i].work_dir)

\* The interpreter spawned for invocation i has read the script file.
Executed(i) == Delegated(i) /\ pc[i] = "done"

\* C10: a run whose working directory no concurrent run shares executes
\* its own script; the script file holds what the last write to complete left
\* there, so runs sharing a working directory can execute each other's script.
C10_OwnScriptInOwnDirectory ==
    /\ \A i \in Procs :
           (Executed(i) /\ OwnDirectory(i)) =>
               executed[i] = [exists |-> TRUE, data |-> contents[i]]
    /\ \A i \in Procs :
           (pc[i] = "leaf" /\ OwnDirectory(i)) =>
               fs[ps1_script(i)] = [exists |-> TRUE, data |-> contents[i]]
    /\ \A p \in Paths :
           last_write[p] # 0 =>
               fs[p] = [exists |-> TRUE, data |-> contents[last_write[p]]]

\* Two runs shared a working directory and one executed the other's script.
C10_Witness ==
    \E i \in Procs, j \in Procs :
        /\ i # j
        /\ Directory(args[i].work_dir) = Directory(args[j].work_dir)
        /\ Executed(i)
        /\ contents[j] # contents[i]
        /\ executed[i] = [exists |-> TRUE, data |-> contents[j]]

====
